---- MODULE Spec2Model ----
(***************************************************************************)
(* A model of circuit_breaker.py: the InMemoryStorage dictionary with its  *)
(* get / set / increment operations and the CircuitBreaker context manager *)
(* (__enter__ / __exit__) used by several concurrent callers.              *)
(*                                                                         *)
(* Time is the integer clock `now` (seconds).  Every caller is a thread    *)
(* running `with CircuitBreaker(...): <operation>` over and over.  Each    *)
(* dictionary access of the storage is one step, so the read-modify-write  *)
(* of increment (line 59) and its second read (line 60) interleave with    *)
(* the steps of the other callers.                                         *)
(***************************************************************************)
EXTENDS Integers, FiniteSets, Sequences, TLC

\* ---- bounds of the model
NumCallers == 2
MaxThreshold == 2
MaxDuration == 1
MaxTime == 2

Callers == 1..NumCallers

\* ---- values of the program
\* Python's None where an integer or a datetime is expected
None == -1
\* exc_type of a with-body that raised nothing
NoExc == "None"
\* the breaker ids in use (the "_id" of the demo settings)
Ids == {"foobar"}
\* the "exceptions" tuple of the policy
exceptions == {"Timeout", "HTTPError", "ConnectionError"}
\* what the guarded operation may raise: nothing, a listed type, a strict
\* subclass of listed types (requests.ConnectTimeout), an unrelated type
RaisedTypes == {NoExc, "Timeout", "ConnectTimeout", "KeyError"}

VARIABLES
    errors_threshold,   \* policy: self.errors_threshold
    open_duration,      \* policy: self.open_duration
    data,               \* InMemoryStorage.data: key -> entry (a dict)
    now,                \* datetime.now(), in seconds
    id,                 \* id[c]: the _id of the breaker caller c uses
    pc,                 \* pc[c]: where caller c is
    exc_type,           \* exc_type[c]: the exc_type __exit__ was called with
    tmp,                \* tmp[c]: the value read by line 59, before the store
    stale,              \* stale[c]: the entry c read at line 59 was replaced
    ret,                \* ret[c]: what increment returned to c (line 60)
    outcome,            \* outcome[c]: how c's last with-statement ended
    lastOpenSet,        \* history: per id, time of the latest set of is_open
    numCounted,         \* history: per id, counted failures so far, counted
                        \* up to errors_threshold
    nIncr,              \* history: stores of line 59 by c in this section
    call,               \* the latest direct call of a storage operation and
                        \* its result (used where the storage is driven alone)
    hist,               \* history: per key, the latest write by such a call
    carried,            \* history: c is in its body and entered before the
                        \* latest trip of its id
    sinceTrip           \* history: per id, counted failures since the latest
                        \* trip by calls that entered after it (saturating
                        \* at errors_threshold)

vars == <<errors_threshold, open_duration, data, now, id, pc, exc_type, tmp,
          stale, ret, outcome, lastOpenSet, numCounted, nIncr, call, hist,
          carried, sinceTrip>>

\* the keys built without the id in front
keys_unprefixed(i) == [is_open |-> "__is_open__", num_errors |-> "__num_errors__"]

\* ---- CircuitBreaker.__init__: the two storage keys of a breaker id, the
\* f-strings of lines 76-77
keys(i) == [is_open |-> i \o "__is_open__", num_errors |-> i \o "__num_errors__"]

\* get with the comparison of line 44 turned around
get_flipped(d, t, key, default) ==
    IF key \notin DOMAIN d
    THEN [raised |-> NoExc, value |-> default]
    ELSE IF "expiration" \in DOMAIN d[key] /\ d[key].expiration = None
    THEN [raised |-> "TypeError", value |-> default]
    ELSE IF "expiration" \in DOMAIN d[key] /\ d[key].expiration > t
    THEN [raised |-> NoExc, value |-> default]
    ELSE [raised |-> NoExc, value |-> d[key].value]

\* ---- InMemoryStorage.get(key, default) on dictionary d at time t.
\* An entry written by set always has the key "expiration"; when its value
\* is None the comparison `None < datetime.now()` raises TypeError.
get(d, t, key, default) ==
    IF key \notin DOMAIN d
    THEN [raised |-> NoExc, value |-> default]
    ELSE IF "expiration" \in DOMAIN d[key] /\ d[key].expiration = None
    THEN [raised |-> "TypeError", value |-> default]
    ELSE IF "expiration" \in DOMAIN d[key] /\ d[key].expiration < t
    THEN [raised |-> NoExc, value |-> default]
    ELSE [raised |-> NoExc, value |-> d[key].value]

\* line 52 giving an entry written without timeout an expiration at once
expiration_of_now(t, timeout) ==
    IF timeout # None /\ timeout # 0 THEN t + timeout ELSE t

\* ---- InMemoryStorage.set(key, value, timeout): `if timeout` is false for
\* None and for 0
expiration_of(t, timeout) ==
    IF timeout # None /\ timeout # 0 THEN t + timeout ELSE None

set(d, t, key, value, timeout) ==
    (key :> [value |-> value, expiration |-> expiration_of(t, timeout)]) @@ d

\* line 56 assigning a fresh entry instead of keeping the stored one
setdefault_overwrite(d, key) == (key :> [value |-> 0]) @@ d

\* ---- InMemoryStorage.increment, line 56: data.setdefault(key, {"value": 0})
setdefault(d, key) ==
    IF key \in DOMAIN d THEN d ELSE (key :> [value |-> 0]) @@ d

\* ---- line 59, the store of `self.data[key]["value"] += 1` into the entry
\* that was read; the entry keeps its other keys
store_value(d, key, v) == [d EXCEPT ![key] = [@ EXCEPT !.value = v]]

\* ---- InMemoryStorage.increment run without interruption (lines 56-60):
\* the dictionary it leaves and the value it returns. The entry's
\* "expiration" is neither read nor written.
increment(d, key) ==
    LET d1 == setdefault(d, key)
        d2 == store_value(d1, key, d1[key].value + 1)
    IN  [data |-> d2, returned |-> d2[key].value]

\* ---- CircuitBreaker.__enter__: "entered" or the exception raised
enter(d, t, i) ==
    LET r == get(d, t, keys(i).is_open, FALSE)
    IN  IF r.raised # NoExc THEN r.raised
        ELSE IF r.value THEN "CircuitOpenError"
        ELSE "entered"

\* line 95 counting every exception
counted_any(e) == e # NoExc

\* ---- the class hierarchy of the types raised: requests.ConnectTimeout
\* derives from both ConnectionError and Timeout; KeyError from none listed
StrictSubclass == {<<"ConnectTimeout", "ConnectionError">>,
                   <<"ConnectTimeout", "Timeout">>}

\* line 95 testing with issubclass instead of tuple membership
counted_issubclass(e) ==
    \E b \in exceptions : e = b \/ <<e, b>> \in StrictSubclass

\* ---- CircuitBreaker.__exit__, line 95: is the failure a counted one
counted(e) == e \in exceptions

\* the comparison of line 98 made one failure too early
reaches_threshold_early(n, threshold) == n + 1 >= threshold

\* line 98 comparing with > instead of >=
reaches_threshold_late(n, threshold) == n > threshold

\* ---- line 98: the comparison with the threshold
reaches_threshold(n, threshold) == n >= threshold

\* line 102 returning False
return_counted_false == FALSE

\* ---- the return values of __exit__ (lines 96 and 102)
return_uncounted == FALSE
return_counted == TRUE

\* ---- the with statement: the body's exception propagates unless __exit__
\* returned a true value
with_outcome(e, returned) ==
    IF e # NoExc /\ ~returned THEN e ELSE "completed"

\* ---- no storage operation has been called directly
NoCall == [op |-> "none"]

\* ---- the states after construction: nothing stored, every caller outside
\* a guarded section
Policy ==
    /\ errors_threshold \in 1..MaxThreshold
    /\ open_duration \in 0..MaxDuration

Init ==
    /\ Policy
    /\ data = <<>>
    /\ now = 0
    /\ id \in [Callers -> Ids]
    /\ pc = [c \in Callers |-> "idle"]
    /\ exc_type = [c \in Callers |-> NoExc]
    /\ tmp = [c \in Callers |-> 0]
    /\ stale = [c \in Callers |-> FALSE]
    /\ ret = [c \in Callers |-> 0]
    /\ outcome = [c \in Callers |-> "none"]
    /\ lastOpenSet = [i \in Ids |-> None]
    /\ numCounted = [i \in Ids |-> 0]
    /\ nIncr = [c \in Callers |-> 0]
    /\ call = NoCall
    /\ hist = <<>>
    /\ carried = [c \in Callers |-> FALSE]
    /\ sinceTrip = [i \in Ids |-> 0]

\* ---- time passes
Tick ==
    /\ now < MaxTime
    /\ now' = now + 1
    /\ UNCHANGED <<carried, sinceTrip, call, hist, errors_threshold, open_duration, data, id, pc, exc_type,
                   tmp, stale, ret, outcome, lastOpenSet, numCounted, nIncr>>

\* ---- `with CircuitBreaker(...)`: __enter__ runs; when it raises, neither
\* the body nor __exit__ runs
Enter(c) ==
    /\ pc[c] = "idle"
    /\ LET r == enter(data, now, id[c])
       IN  /\ pc' = [pc EXCEPT ![c] = IF r = "entered" THEN "body" ELSE "idle"]
           /\ outcome' = [outcome EXCEPT ![c] = IF r = "entered" THEN "none" ELSE r]
    /\ exc_type' = [exc_type EXCEPT ![c] = NoExc]
    /\ nIncr' = [nIncr EXCEPT ![c] = 0]
    /\ UNCHANGED <<carried, sinceTrip, call, hist, errors_threshold, open_duration, data, now, id, tmp, stale,
                   ret, lastOpenSet, numCounted>>

\* ---- the guarded operation ends, raising e or nothing, and __exit__ is
\* called with it; lines 95-96: an outcome that is not counted returns False
ExitClassify(c) ==
    /\ pc[c] = "body"
    /\ \E e \in RaisedTypes :
         /\ exc_type' = [exc_type EXCEPT ![c] = e]
         /\ IF counted(e)
            THEN /\ pc' = [pc EXCEPT ![c] = "inc56"]
                 /\ numCounted' = [numCounted EXCEPT ![id[c]] =
                                      IF @ < errors_threshold THEN @ + 1 ELSE @]
                 /\ sinceTrip' = [sinceTrip EXCEPT ![id[c]] =
                                     IF ~carried[c] /\ @ < errors_threshold
                                     THEN @ + 1 ELSE @]
                 /\ UNCHANGED outcome
            ELSE /\ pc' = [pc EXCEPT ![c] = "idle"]
                 /\ outcome' = [outcome EXCEPT
                                  ![c] = with_outcome(e, return_uncounted)]
                 /\ UNCHANGED <<numCounted, sinceTrip>>
    /\ carried' = [carried EXCEPT ![c] = FALSE]
    /\ UNCHANGED <<call, hist, errors_threshold, open_duration, data, now, id, tmp, stale,
                   ret, lastOpenSet, nIncr>>

\* ---- increment, line 56
IncSetdefault(c) ==
    /\ pc[c] = "inc56"
    /\ data' = setdefault(data, keys(id[c]).num_errors)
    /\ pc' = [pc EXCEPT ![c] = "inc59r"]
    /\ UNCHANGED <<carried, sinceTrip, call, hist, errors_threshold, open_duration, now, id, exc_type, tmp,
                   stale, ret, outcome, lastOpenSet, numCounted, nIncr>>

\* ---- increment, line 59: self.data[key] is fetched and its "value" read
IncLoad(c) ==
    /\ pc[c] = "inc59r"
    /\ tmp' = [tmp EXCEPT ![c] = data[keys(id[c]).num_errors].value]
    /\ stale' = [stale EXCEPT ![c] = FALSE]
    /\ pc' = [pc EXCEPT ![c] = "inc59w"]
    /\ UNCHANGED <<carried, sinceTrip, call, hist, errors_threshold, open_duration, data, now, id, exc_type,
                   ret, outcome, lastOpenSet, numCounted, nIncr>>

\* ---- increment, line 59: value + 1 is stored into the entry fetched by the
\* load; when a set has replaced that entry in the dictionary meanwhile, the
\* store goes to the replaced object and the dictionary does not show it
IncStore(c) ==
    /\ pc[c] = "inc59w"
    /\ data' = IF stale[c] THEN data
               ELSE store_value(data, keys(id[c]).num_errors, tmp[c] + 1)
    /\ nIncr' = [nIncr EXCEPT ![c] = @ + 1]
    /\ tmp' = [tmp EXCEPT ![c] = 0]
    /\ stale' = [stale EXCEPT ![c] = FALSE]
    /\ pc' = [pc EXCEPT ![c] = "inc60"]
    /\ UNCHANGED <<carried, sinceTrip, call, hist, errors_threshold, open_duration, now, id, exc_type, ret,
                   outcome, lastOpenSet, numCounted>>

\* ---- increment, line 60: the value is read again and returned
IncReturn(c) ==
    /\ pc[c] = "inc60"
    /\ ret' = [ret EXCEPT ![c] = data[keys(id[c]).num_errors].value]
    /\ pc' = [pc EXCEPT ![c] = "cmp98"]
    /\ UNCHANGED <<carried, sinceTrip, call, hist, errors_threshold, open_duration, data, now, id, exc_type,
                   tmp, stale, outcome, lastOpenSet, numCounted, nIncr>>

\* ---- __exit__, line 98: below the threshold the exit returns True (line 102)
ExitCompare(c) ==
    /\ pc[c] = "cmp98"
    /\ IF reaches_threshold(ret[c], errors_threshold)
       THEN /\ pc' = [pc EXCEPT ![c] = "set99"]
            /\ UNCHANGED <<outcome, ret>>
       ELSE /\ pc' = [pc EXCEPT ![c] = "idle"]
            /\ ret' = [ret EXCEPT ![c] = 0]
            /\ outcome' = [outcome EXCEPT
                             ![c] = with_outcome(exc_type[c], return_counted)]
    /\ UNCHANGED <<carried, sinceTrip, call, hist, errors_threshold, open_duration, data, now, id, exc_type,
                   tmp, stale, lastOpenSet, numCounted, nIncr>>

\* ---- __exit__, line 99: set(is_open, True, open_duration)
ExitSetOpen(c) ==
    /\ pc[c] = "set99"
    /\ data' = set(data, now, keys(id[c]).is_open, TRUE, open_duration)
    /\ lastOpenSet' = [lastOpenSet EXCEPT ![id[c]] = now]
    /\ carried' = [d \in DOMAIN pc |->
                     (pc[d] = "body" /\ id[d] = id[c]) \/ carried[d]]
    /\ sinceTrip' = [sinceTrip EXCEPT ![id[c]] = 0]
    /\ pc' = [pc EXCEPT ![c] = "set100"]
    /\ UNCHANGED <<call, hist, errors_threshold, open_duration, now, id, exc_type, tmp,
                   stale, ret, outcome, numCounted, nIncr>>

\* ---- __exit__, lines 100 and 102: set(num_errors, 0), then return True.
\* The set puts a new entry under the key: a caller between the load and the
\* store of line 59 holds the replaced entry, which nothing reads again, so
\* the value it read from it is dropped here
ExitReset(c) ==
    /\ pc[c] = "set100"
    /\ data' = set(data, now, keys(id[c]).num_errors, 0, None)
    /\ stale' = [d \in DOMAIN pc |->
                   IF pc[d] = "inc59w" /\ id[d] = id[c] THEN TRUE ELSE stale[d]]
    /\ tmp' = [d \in DOMAIN pc |->
                 IF pc[d] = "inc59w" /\ id[d] = id[c] THEN 0 ELSE tmp[d]]
    /\ pc' = [pc EXCEPT ![c] = "idle"]
    /\ ret' = [ret EXCEPT ![c] = 0]
    /\ outcome' = [outcome EXCEPT
                     ![c] = with_outcome(exc_type[c], return_counted)]
    /\ UNCHANGED <<carried, sinceTrip, call, hist, errors_threshold, open_duration, now, id, exc_type,
                   lastOpenSet, numCounted, nIncr>>

Next ==
    \/ Tick
    \/ \E c \in Callers : Enter(c)
    \/ \E c \in Callers : ExitClassify(c)
    \/ \E c \in Callers : IncSetdefault(c)
    \/ \E c \in Callers : IncLoad(c)
    \/ \E c \in Callers : IncStore(c)
    \/ \E c \in Callers : IncReturn(c)
    \/ \E c \in Callers : ExitCompare(c)
    \/ \E c \in Callers : ExitSetOpen(c)
    \/ \E c \in Callers : ExitReset(c)

Spec == Init /\ [][Next]_vars


\* ---- the burst: K = NumCallers + 1 callers on one id have all passed
\* Enter while the breaker was Closed on empty storage, each body has raised
\* a counted failure, and each __exit__ is about to call increment.  K is
\* more than errors_threshold and less than twice errors_threshold, so the
\* K failures reach the threshold once and cannot reach it a second time
BurstCallers == 1..(NumCallers + 1)

InitBurst ==
    /\ Policy
    /\ errors_threshold < NumCallers + 1
    /\ NumCallers + 1 < 2 * errors_threshold
    /\ data = <<>>
    /\ now = 0
    /\ id \in [BurstCallers -> Ids]
    /\ \A c, d \in BurstCallers : id[c] = id[d]
    /\ pc = [c \in BurstCallers |-> "inc56"]
    /\ exc_type = [c \in BurstCallers |-> "Timeout"]
    /\ tmp = [c \in BurstCallers |-> 0]
    /\ stale = [c \in BurstCallers |-> FALSE]
    /\ ret = [c \in BurstCallers |-> 0]
    /\ outcome = [c \in BurstCallers |-> "none"]
    /\ lastOpenSet = [i \in Ids |-> None]
    /\ numCounted = [i \in Ids |-> errors_threshold]
    /\ nIncr = [c \in BurstCallers |-> 0]
    /\ call = NoCall
    /\ hist = <<>>
    /\ carried = [c \in BurstCallers |-> FALSE]
    /\ sinceTrip = [i \in Ids |-> 0]

\* the K exits run to their end; no new section is started
NextBurst ==
    \/ Tick
    \/ \E c \in BurstCallers : IncSetdefault(c)
    \/ \E c \in BurstCallers : IncLoad(c)
    \/ \E c \in BurstCallers : IncStore(c)
    \/ \E c \in BurstCallers : IncReturn(c)
    \/ \E c \in BurstCallers : ExitCompare(c)
    \/ \E c \in BurstCallers : ExitSetOpen(c)
    \/ \E c \in BurstCallers : ExitReset(c)

SpecBurst == InitBurst /\ [][NextBurst]_vars

\* ---- n = NumCallers concurrent calls of increment on one key whose stored
\* value is 0: the key is absent (nothing stored yet) or holds the 0 written
\* by the reset of an earlier trip
InitIncrement ==
    /\ Policy
    /\ now \in 0..MaxTime
    /\ id \in [Callers -> Ids]
    /\ \A c, d \in Callers : id[c] = id[d]
    /\ \E i \in Ids :
         \/ /\ data = <<>>
            /\ lastOpenSet = [j \in Ids |-> None]
         \/ \E t \in 0..now :
              /\ data = set(set(<<>>, t, keys(i).is_open, TRUE, open_duration),
                            t, keys(i).num_errors, 0, None)
              /\ lastOpenSet = [j \in Ids |-> IF j = i THEN t ELSE None]
    /\ pc = [c \in Callers |-> "inc56"]
    /\ exc_type = [c \in Callers |-> "Timeout"]
    /\ tmp = [c \in Callers |-> 0]
    /\ stale = [c \in Callers |-> FALSE]
    /\ ret = [c \in Callers |-> 0]
    /\ outcome = [c \in Callers |-> "none"]
    /\ numCounted = [i \in Ids |-> errors_threshold]
    /\ nIncr = [c \in Callers |-> 0]
    /\ call = NoCall
    /\ hist = <<>>
    /\ carried = [c \in Callers |-> FALSE]
    /\ sinceTrip = [i \in Ids |-> 0]

\* the n calls of increment run to their return
NextIncrement ==
    \/ \E c \in Callers : IncSetdefault(c)
    \/ \E c \in Callers : IncLoad(c)
    \/ \E c \in Callers : IncStore(c)
    \/ \E c \in Callers : IncReturn(c)

SpecIncrement == InitIncrement /\ [][NextIncrement]_vars

\* ---- one thread running its guarded sections one after another, each
\* through a breaker instance of its own (the demo constructs a new
\* CircuitBreaker for every `with`): a section starts only when no other
\* is in progress
NextSequential ==
    \/ Tick
    \/ \E c \in Callers :
         /\ \A d \in Callers \ {c} : pc[d] = "idle"
         /\ Enter(c)
    \/ \E c \in Callers : ExitClassify(c)
    \/ \E c \in Callers : IncSetdefault(c)
    \/ \E c \in Callers : IncLoad(c)
    \/ \E c \in Callers : IncStore(c)
    \/ \E c \in Callers : IncReturn(c)
    \/ \E c \in Callers : ExitCompare(c)
    \/ \E c \in Callers : ExitSetOpen(c)
    \/ \E c \in Callers : ExitReset(c)

SpecSequential == Init /\ [][NextSequential]_vars

\* ---- breakers of two ids in one process, their guarded sections run one
\* after another: the first caller uses one id, every other caller the
\* second; the second id is chosen to be the first one's is_open key
TwoIds == {"foobar", "foobar__is_open__"}

InitTwoIds ==
    /\ Policy
    /\ data = <<>>
    /\ now = 0
    /\ id = [c \in Callers |-> IF c = 1 THEN "foobar" ELSE "foobar__is_open__"]
    /\ pc = [c \in Callers |-> "idle"]
    /\ exc_type = [c \in Callers |-> NoExc]
    /\ tmp = [c \in Callers |-> 0]
    /\ stale = [c \in Callers |-> FALSE]
    /\ ret = [c \in Callers |-> 0]
    /\ outcome = [c \in Callers |-> "none"]
    /\ lastOpenSet = [i \in TwoIds |-> None]
    /\ numCounted = [i \in TwoIds |-> 0]
    /\ nIncr = [c \in Callers |-> 0]
    /\ call = NoCall
    /\ hist = <<>>
    /\ carried = [c \in Callers |-> FALSE]
    /\ sinceTrip = [i \in TwoIds |-> 0]

SpecTwoIds == InitTwoIds /\ [][NextSequential]_vars

\* ---- every storage operation taken as one step: the increment of line 97
\* runs from line 56 to line 60 without another caller's step in between
IncAtomic(c) ==
    /\ pc[c] = "inc56"
    /\ LET r == increment(data, keys(id[c]).num_errors)
       IN  /\ data' = r.data
           /\ ret' = [ret EXCEPT ![c] = r.returned]
    /\ nIncr' = [nIncr EXCEPT ![c] = @ + 1]
    /\ pc' = [pc EXCEPT ![c] = "cmp98"]
    /\ UNCHANGED <<carried, sinceTrip, call, hist, errors_threshold, open_duration, now, id, exc_type,
                   tmp, stale, outcome, lastOpenSet, numCounted>>

NextAtomic ==
    \/ Tick
    \/ \E c \in Callers : Enter(c)
    \/ \E c \in Callers : ExitClassify(c)
    \/ \E c \in Callers : IncAtomic(c)
    \/ \E c \in Callers : ExitCompare(c)
    \/ \E c \in Callers : ExitSetOpen(c)
    \/ \E c \in Callers : ExitReset(c)

SpecAtomic == Init /\ [][NextAtomic]_vars

\* ---- the storage driven alone: one client calls set, get and increment
\* on one key, one call after another, at any time. Values are small
\* integers, the default handed to get is None (the parameter's default).
StorageKey == keys("foobar").num_errors
StorageValues == 0..MaxThreshold
Timeouts == {None} \cup 0..MaxDuration

NoWrite == [op |-> "none"]
Written(k) == IF k \in DOMAIN hist THEN hist[k] ELSE NoWrite

breakerVars == <<errors_threshold, open_duration, id, pc, exc_type, tmp, stale,
                 ret, outcome, lastOpenSet, numCounted, nIncr, carried,
                 sinceTrip>>

StorageSet(value, timeout) ==
    /\ data' = set(data, now, StorageKey, value, timeout)
    /\ call' = [op |-> "set", key |-> StorageKey, at |-> now,
                raised |-> NoExc, returned |-> None,
                before |-> Written(StorageKey)]
    /\ hist' = (StorageKey :> [op |-> "set", value |-> value,
                               timeout |-> timeout, at |-> now]) @@ hist
    /\ UNCHANGED <<now, breakerVars>>

StorageGet ==
    LET r == get(data, now, StorageKey, None)
    IN  /\ call' = [op |-> "get", key |-> StorageKey, at |-> now,
                    raised |-> r.raised, returned |-> r.value,
                    before |-> Written(StorageKey)]
        /\ UNCHANGED <<data, hist, now, breakerVars>>

StorageIncrement ==
    LET r == increment(data, StorageKey)
    IN  /\ r.returned <= MaxThreshold + 1
        /\ data' = r.data
        /\ call' = [op |-> "increment", key |-> StorageKey, at |-> now,
                    raised |-> NoExc, returned |-> r.returned,
                    before |-> Written(StorageKey)]
        /\ hist' = (StorageKey :> [op |-> "increment", value |-> r.returned,
                                   timeout |-> None, at |-> now]) @@ hist
        /\ UNCHANGED <<now, breakerVars>>

NextStorage ==
    \/ Tick
    \/ \E value \in StorageValues, timeout \in Timeouts :
         StorageSet(value, timeout)
    \/ StorageGet
    \/ StorageIncrement

SpecStorage == Init /\ [][NextStorage]_vars

(***************************************************************************)
(* The properties                                                          *)
(***************************************************************************)

\* the breaker id i is Open: is_open was set by a trip and open_duration
\* seconds have not yet elapsed since the latest set
Open(i) ==
    /\ lastOpenSet[i] # None
    /\ now - lastOpenSet[i] < open_duration

\* caller c is the only caller that has ever started a guarded section
Alone(c) ==
    \A d \in Callers \ {c} : pc[d] = "idle" /\ outcome[d] = "none"

\* c's __exit__ returns in this step
ExitEnds(c) == pc[c] \in {"body", "cmp98", "set100"} /\ pc'[c] = "idle"

\* C1: while a breaker id is Open, every Enter on it raises CircuitOpenError:
\* the body is not entered (so neither the operation nor __exit__ runs) and
\* the storage is left as it was.
C1_OpenRefusesEnter ==
    [][\A c \in Callers :
         (Open(id[c]) /\ Enter(c)) =>
            /\ outcome'[c] = "CircuitOpenError"
            /\ pc'[c] = "idle"
            /\ data' = data]_vars

\* an Enter was refused while the id was Open, after a trip
C1_Witness ==
    \E c \in Callers :
        /\ Open(id[c])
        /\ pc[c] = "idle"
        /\ outcome[c] = "CircuitOpenError"

\* C3: as long as fewer than errors_threshold counted failures have been
\* registered on an id, is_open has not been set, no Enter has raised
\* CircuitOpenError, and an Enter issued now is admitted.
C3_BelowThresholdClosed ==
    \A i \in Ids :
        numCounted[i] < errors_threshold =>
            /\ keys(i).is_open \notin DOMAIN data
            /\ \A c \in Callers : id[c] = i => outcome[c] # "CircuitOpenError"
            /\ enter(data, now, i) = "entered"

\* a caller was admitted after errors_threshold - 1 >= 1 counted failures
\* were fully accounted
C3_Witness ==
    \E c \in Callers :
        /\ pc[c] = "body"
        /\ numCounted[id[c]] >= 1
        /\ numCounted[id[c]] = errors_threshold - 1
        /\ keys(id[c]).num_errors \in DOMAIN data
        /\ data[keys(id[c]).num_errors].value = numCounted[id[c]]
        /\ \A d \in Callers \ {c} : pc[d] = "idle"

\* C2: for a single caller on an id that started with no stored state, the
\* Exit whose increment returned exactly errors_threshold leaves is_open =
\* True expiring open_duration seconds after it was set and num_errors = 0,
\* and no Exit that ends with fewer counted failures leaves is_open set.
C2_TripsAtThreshold ==
    [][\A c \in Callers :
         (Alone(c) /\ ExitEnds(c)) =>
            LET k == keys(id[c])
            IN  /\ ret[c] = errors_threshold =>
                     /\ k.is_open \in DOMAIN data'
                     /\ data'[k.is_open] =
                          [value |-> TRUE,
                           expiration |-> lastOpenSet'[id[c]] + open_duration]
                     /\ data'[k.num_errors].value = 0
                /\ numCounted[id[c]] < errors_threshold =>
                     k.is_open \notin DOMAIN data']_vars

\* all callers of the burst have left their guarded section
AllDone == \A c \in BurstCallers : pc[c] = "idle"

\* the num_errors entry of id i was written by set (the reset of line 100):
\* only set writes the key "expiration"
WasReset(i) ==
    /\ keys(i).num_errors \in DOMAIN data
    /\ "expiration" \in DOMAIN data[keys(i).num_errors]

\* C4: K > errors_threshold callers that have passed Enter each register one
\* counted failure: is_open is set exactly once, num_errors is reset exactly
\* once, and every increment is counted once, so that num_errors ends at
\* K - errors_threshold.
C4_TripsExactlyOnce ==
    [][/\ \A c \in BurstCallers :
            (pc[c] = "set99" /\ pc'[c] = "set100") => lastOpenSet[id[c]] = None
       /\ \A c \in BurstCallers :
            (pc[c] = "set100" /\ pc'[c] = "idle") => ~WasReset(id[c])
       /\ AllDone' =>
            \A c \in BurstCallers :
               /\ lastOpenSet'[id[c]] # None
               /\ data'[keys(id[c]).num_errors] =
                    [value |-> Cardinality(BurstCallers) - errors_threshold,
                     expiration |-> None]]_vars

\* all calls of increment have returned
AllReturned == \A c \in Callers : pc[c] = "cmp98"

\* C5: n concurrent increment(key) calls on a key whose stored value is 0
\* return exactly 1, ..., n, each once, and leave the stored value at n.
C5_IncrementAtomic ==
    AllReturned =>
        /\ {ret[c] : c \in Callers} = 1..NumCallers
        /\ \A c \in Callers :
             data[keys(id[c]).num_errors].value = NumCallers

\* the increment of d's Exit has returned a value >= errors_threshold and
\* is_open has not been set for it yet
TripPending(d) ==
    \/ pc[d] = "cmp98" /\ ret[d] >= errors_threshold
    \/ pc[d] = "set99"

\* C6: once some Exit's increment has returned a value >= errors_threshold,
\* no Enter on the same id by another caller is admitted before is_open is
\* set.
C6_TripAtomicWithCount ==
    [][\A c, d \in Callers :
         (c # d /\ id[c] = id[d] /\ TripPending(d) /\ Enter(c))
            => pc'[c] # "body"]_vars

\* C7: an Enter issued more than open_duration seconds after the latest set
\* of is_open is admitted, for every open_duration >= 0.
C7_AdmitsAfterOpenDuration ==
    [][\A c \in Callers :
         (/\ lastOpenSet[id[c]] # None
          /\ now - lastOpenSet[id[c]] > open_duration
          /\ Enter(c)) => pc'[c] = "body"]_vars

\* C8: an Exit called with no exception or with one that is not in the
\* exceptions tuple leaves the storage as it is and returns at once; the
\* section ends normally for no exception and with that same exception
\* otherwise.
C8_UncountedNoChange ==
    [][\A c \in Callers :
         (pc[c] = "body" /\ pc'[c] # "body" /\ exc_type'[c] \notin exceptions) =>
            /\ data' = data
            /\ pc'[c] = "idle"
            /\ outcome'[c] = IF exc_type'[c] = NoExc THEN "completed"
                             ELSE exc_type'[c]]_vars

\* sections have ended with success and with an uncounted failure re-raised,
\* while a counted failure was on record
C8_Witness ==
    \E c, d \in Callers :
        /\ pc[c] = "idle" /\ exc_type[c] = "KeyError" /\ outcome[c] = "KeyError"
        /\ pc[d] = "idle" /\ exc_type[d] = NoExc /\ outcome[d] = "completed"
        /\ keys(id[c]).num_errors \in DOMAIN data
        /\ data[keys(id[c]).num_errors].value = 1

\* C9: a section whose body raised a counted failure has ended normally for
\* the caller, after exactly one increment of num_errors, whether or not the
\* failure tripped the breaker.
C9_CountedSuppressed ==
    \A c \in Callers :
        (pc[c] = "idle" /\ exc_type[c] \in exceptions) =>
            /\ outcome[c] = "completed"
            /\ nIncr[c] = 1

\* two sections with a counted failure have ended normally, the first
\* leaving the breaker Closed and the second tripping it
C9_Witness ==
    /\ errors_threshold = 2
    /\ \A c \in Callers :
         /\ pc[c] = "idle"
         /\ exc_type[c] \in exceptions
         /\ outcome[c] = "completed"
         /\ WasReset(id[c])
         /\ keys(id[c]).is_open \in DOMAIN data

\* C10: the only exceptions a guarded section ends with are CircuitOpenError
\* and the uncounted failure raised by its own body.
C10_OnlyOpenErrorOrOwnFailure ==
    \A c \in Callers :
        \/ outcome[c] \in {"none", "completed", "CircuitOpenError"}
        \/ /\ outcome[c] = exc_type[c]
           /\ exc_type[c] \in RaisedTypes \ (exceptions \cup {NoExc})



\* no guarded section is inside its __exit__
Quiet == \A c \in Callers : pc[c] \in {"idle", "body"}

\* C11: breaker instances constructed with the same id share the accounting:
\* the counted failures registered through any of them add up in the one
\* num_errors entry, the errors_threshold-th of them trips the breaker
\* whichever instance it came through, and while the breaker is then Open
\* __enter__ of every instance of that id raises CircuitOpenError.
C11_SameIdSharesState ==
    \A i \in Ids :
        /\ (Quiet /\ numCounted[i] >= 1 /\ numCounted[i] < errors_threshold) =>
              /\ keys(i).num_errors \in DOMAIN data
              /\ data[keys(i).num_errors].value = numCounted[i]
        /\ (Quiet /\ numCounted[i] = errors_threshold) =>
              lastOpenSet[i] # None
        /\ \A c \in Callers :
              (id[c] = i /\ Open(i)) => enter(data, now, id[c]) = "CircuitOpenError"

\* two instances of one id have each registered one counted failure, the
\* second tripped the breaker, and Enter on the first was refused
C11_Witness ==
    \E c, d \in Callers :
        /\ c # d /\ id[c] = id[d]
        /\ errors_threshold = 2
        /\ Open(id[c])
        /\ pc[c] = "idle" /\ outcome[c] = "CircuitOpenError"
        /\ pc[d] = "idle" /\ exc_type[d] \in exceptions /\ outcome[d] = "completed"
        /\ data[keys(id[c]).num_errors].value = 0

\* the storage keys owned by breaker id i
OwnKeys(i) == {keys(i).is_open, keys(i).num_errors}

\* dictionary d without the entries of the keys in K
Without(d, K) == [k \in DOMAIN d \ K |-> d[k]]

\* C12: a step of a guarded section on id A writes only the two keys
\* "A__is_open__" and "A__num_errors__" (every entry under another key stays
\* as it is, and no other key appears), and what __enter__ on A does depends
\* on the entries under A's keys only.
C12_IdsIndependent ==
    [][\A c \in Callers :
         /\ (pc'[c] # pc[c] \/ outcome'[c] # outcome[c]) =>
               Without(data', OwnKeys(id[c])) = Without(data, OwnKeys(id[c]))
         /\ \A i \in TwoIds \ {id[c]} :
               enter(data, now, id[c]) =
                  enter(Without(data, OwnKeys(i)), now, id[c])]_vars

\* the breaker of the first id is Open, a call on it was refused, and the
\* breaker of the second id has counted a failure and admitted the next call
C12_Witness ==
    \E c, d \in Callers :
        /\ id[c] # id[d]
        /\ errors_threshold = 2
        /\ Open(id[c]) /\ outcome[c] = "CircuitOpenError"
        /\ pc[d] = "body"
        /\ keys(id[d]).is_open \notin DOMAIN data
        /\ keys(id[d]).num_errors \in DOMAIN data
        /\ data[keys(id[d]).num_errors].value = 1

\* the latest Open period of breaker id i has expired
Expired(i) ==
    /\ lastOpenSet[i] # None
    /\ now - lastOpenSet[i] > open_duration

\* C15: after a trip the breaker does not open again until at least
\* errors_threshold counted failures have been recorded by calls that entered
\* after the previous Open period expired; the first call after expiration
\* is an ordinary call and the count it contributes to starts from 0
C15_NoCarryOver ==
    [][\A c \in Callers :
         /\ (Expired(id[c]) /\ pc[c] = "set99" /\ pc'[c] = "set100") =>
               sinceTrip[id[c]] >= errors_threshold
         /\ (Expired(id[c]) /\ sinceTrip[id[c]] = 0 /\ Enter(c)) =>
               /\ pc'[c] = "body"
               /\ keys(id[c]).num_errors \in DOMAIN data
               /\ data[keys(id[c]).num_errors].value = 0]_vars

\* C16: the num_errors key never carries an expiration, and for one caller
\* running its sections one after another the count is left alone by the
\* passing of time, by successes and by uncounted failures, and the breaker
\* trips on exactly the errors_threshold-th counted failure since the latest
\* trip (or since first use)
C16_AccumulatesAcrossTime ==
    [][\A c \in Callers :
         /\ (pc[c] = "cmp98" /\ pc'[c] # "cmp98") =>
               (pc'[c] = "set99" <=> sinceTrip[id[c]] = errors_threshold)
         /\ (now' # now \/ (pc[c] = "body" /\ pc'[c] = "idle")) =>
               data' = data
         /\ keys(id[c]).num_errors \in DOMAIN data' =>
               \/ "expiration" \notin DOMAIN data'[keys(id[c]).num_errors]
               \/ data'[keys(id[c]).num_errors].expiration = None]_vars

C16_Witness ==
    \E c \in Callers :
        /\ errors_threshold = 2
        /\ Expired(id[c])
        /\ pc[c] = "set99"
        /\ sinceTrip[id[c]] = 2
        /\ \E d \in Callers \ {c} :
              pc[d] = "idle" /\ exc_type[d] = "KeyError" /\ outcome[d] = "KeyError"

\* C19: __exit__ counts a failure only when its type is itself a member of
\* `exceptions`: a failure whose type is a strict subclass of a listed type
\* and not itself listed is re-raised and changes neither stored key
C19_SubclassUncounted ==
    [][\A c \in Callers :
         (/\ pc[c] = "body"
          /\ pc'[c] # "body"
          /\ exc_type'[c] \notin exceptions
          /\ \E b \in exceptions : <<exc_type'[c], b>> \in StrictSubclass) =>
            /\ pc'[c] = "idle"
            /\ outcome'[c] = exc_type'[c]
            /\ data' = data
            /\ lastOpenSet' = lastOpenSet
            /\ numCounted' = numCounted]_vars

C19_Witness ==
    \E c \in Callers :
        /\ pc[c] = "idle"
        /\ exc_type[c] = "ConnectTimeout"
        /\ outcome[c] = "ConnectTimeout"
        /\ errors_threshold = 2
        /\ keys(id[c]).num_errors \in DOMAIN data
        /\ data[keys(id[c]).num_errors].value = 1
        /\ keys(id[c]).is_open \notin DOMAIN data

\* the Exit of c has incremented num_errors to the threshold or above and
\* has not yet reset it (lines 98-100)
BetweenIncrementAndReset(c) ==
    \/ pc[c] \in {"set99", "set100"}
    \/ pc[c] = "cmp98" /\ ret[c] >= errors_threshold

\* C18: with every storage operation one atomic step, for any number of
\* callers and any interleaving, whenever no Exit of a breaker id is between
\* its increment and its reset, the stored num_errors is at least 0 and
\* below errors_threshold
C18_CountBelowThreshold ==
    \A i \in Ids :
        (/\ \A c \in Callers : id[c] = i => ~BetweenIncrementAndReset(c)
         /\ keys(i).num_errors \in DOMAIN data) =>
            /\ 0 <= data[keys(i).num_errors].value
            /\ data[keys(i).num_errors].value < errors_threshold

C18_Witness ==
    \E i \in Ids :
        /\ errors_threshold = 2
        /\ lastOpenSet[i] # None
        /\ \A c \in Callers : id[c] = i /\ pc[c] = "idle"
        /\ keys(i).num_errors \in DOMAIN data
        /\ data[keys(i).num_errors].value = 1

\* ---- the storage driven alone

\* the latest write of the key read by the latest call was a set with this
\* timeout, made `age` seconds before the call
AfterSet(timeout, age) ==
    /\ call.op # "none"
    /\ call.before.op = "set"
    /\ call.before.timeout = timeout
    /\ call.at - call.before.at = age

\* C13: get never raises; on a key never written it returns the default, and
\* after set(key, value) with timeout None every get until the key is
\* written again returns value
C13_GetNeverRaises ==
    call.op = "get" =>
        /\ call.raised = NoExc
        /\ call.before.op = "none" => call.returned = None
        /\ (call.before.op = "set" /\ call.before.timeout = None) =>
               call.returned = call.before.value

\* C14: for every integer timeout t >= 0 given to set, a get issued less
\* than t seconds after the set returns the value and a get issued more
\* than t seconds after it returns the default
C14_TimeoutHonoured ==
    \A t \in 0..MaxDuration, age \in 0..MaxTime :
        (call.op = "get" /\ AfterSet(t, age)) =>
            /\ age < t => (call.raised = NoExc /\ call.returned = call.before.value)
            /\ age > t => (call.raised = NoExc /\ call.returned = None)

\* C17: increment on a key whose entry was set with a timeout that has since
\* elapsed returns 1, and a get issued immediately after an increment that
\* returned n returns n
C17_IncrementExpiredAsAbsent ==
    /\ \A t \in 0..MaxDuration, age \in 0..MaxTime :
          (call.op = "increment" /\ AfterSet(t, age) /\ age > t) =>
              call.returned = 1
    /\ (call.op = "get" /\ call.before.op = "increment"
            /\ call.at = call.before.at) =>
          (call.raised = NoExc /\ call.returned = call.before.value)

TypeOK ==
    /\ errors_threshold \in 1..MaxThreshold
    /\ open_duration \in 0..MaxDuration
    /\ now \in 0..MaxTime
    /\ pc \in [Callers -> {"idle", "body", "inc56", "inc59r", "inc59w",
                           "inc60", "cmp98", "set99", "set100"}]
    /\ exc_type \in [Callers -> RaisedTypes]
    /\ outcome \in [Callers -> {"none", "completed", "CircuitOpenError",
                                "TypeError", "ConnectTimeout", "KeyError"}]
====
